---- MODULE Spec2Model ----
(***************************************************************************)
(* HoRuS Travel Assistant: get_response (main.py) and EmbeddingManager     *)
(* (src/embeddings.py) as a state machine over one graph store.            *)
(*                                                                         *)
(* Spec   : a process calling get_response up to MaxCalls times.           *)
(* SpecEM : a client that constructs an EmbeddingManager and calls         *)
(*          search_similar_hotels / close on it directly.                  *)
(***************************************************************************)
EXTENDS Integers, Sequences, FiniteSets, TLC

\* ------------------------------------------------------------------ bounds
MaxHotels == 3
MaxCalls == 2

\* ------------------------------------------------------- program constants
TopK == 3
Dim384 == 384
Dim768 == 768

VARIABLES
    pc,                 \* position in get_response / EmbeddingManager.__init__
    mode,               \* "add" | "serve" (get_response paths) | "direct" (library use)
    calls,              \* get_response calls started so far
    outcome,            \* how the last call ended
    env,                \* os.environ: [hf, pw] presence of HF_TOKEN / NEO4J_PASSWORD
    query,              \* get_response's query argument ("" = interactive mode)
    user_input,         \* text of the query cycle in progress
    intent,             \* intent.category of the query cycle in progress
    baseline_results,
    embedding_results,
    context,            \* list given to Inference.format_prompt
    handed,             \* context was handed to the inference collaborator
    steps,              \* retrieval steps of the query cycle, in start order
    retrieverDriver,    \* GraphRetriever's driver: "none" | "open" | "closed"
    embedderDriver,     \* EmbeddingManager.driver: "none" | "open" | "closed"
    models,             \* loaded SentenceTransformer models, subset of {1, 2}
    loadFailed,         \* a model load raised in this construction
    indices,            \* vector indices existing in the store
    idxFailed,          \* indices whose creation raised in this construction
    source,             \* Hotel/City/Country source properties per hotel
    joined,             \* hotels on a Hotel->City->Country path
    fields,             \* derived properties search_text/embedding/embedding_v2
    prev,               \* fields as they were when this call started
    hotels,             \* populate_embeddings: fetched records (ids, in order)
    batch_count,        \* populate_embeddings: hotels processed
    fetched,            \* the fetch query of this construction returned
    written,            \* hotels whose update query succeeded in this construction
    writeFailed,        \* hotels whose update query raised in this construction
    issued,             \* kinds of store query issued during this call
    completedRuns,      \* populate_embeddings runs that reached their end
    firstText,          \* search_text per hotel when the first run completed
    lastSearch          \* index / model / vector of the last search_similar_hotels

ctl     == <<pc, mode, calls, outcome>>
request == <<query, user_input, intent, baseline_results, embedding_results,
             context, handed, steps>>
conns   == <<retrieverDriver, embedderDriver>>
mlState == <<models, loadFailed>>
idxs    == <<indices, idxFailed>>
data    == <<source, joined, env>>
derived == <<fields, prev>>
batch   == <<hotels, batch_count, fetched, written, writeFailed>>
history == <<completedRuns, firstText>>
vars    == <<ctl, request, conns, mlState, idxs, data, derived, batch, history,
             issued, lastSearch>>

\* ------------------------------------------------------------------ values
Hotels == 1..MaxHotels

Categories == {"search", "recommendation", "booking", "info", "other"}

Queries == {"hotels in Paris"}

AttrsA == [name |-> "Grand Paris", city |-> "Paris", country |-> "France",
           stars |-> 5, clean |-> 9, comfort |-> 8, facilities |-> 9]
AttrsB == [name |-> "Nile View", city |-> "Cairo", country |-> "Egypt",
           stars |-> 4, clean |-> 10, comfort |-> 7, facilities |-> 8]
AttrsOld == [name |-> "Old Inn", city |-> "Paris", country |-> "France",
             stars |-> 3, clean |-> 6, comfort |-> 6, facilities |-> 5]

\* source data sets: two hotels may share every attribute but the id
SourceChoices ==
    {[h \in Hotels |-> IF h % 2 = 1 THEN AttrsA ELSE AttrsB],
     [h \in Hotels |-> AttrsB]}

Digits == <<"0", "1", "2", "3", "4", "5", "6", "7", "8", "9">>

\* str(n) of a non-negative integer, one character per element
RECURSIVE Str(_)
Str(n) == IF n < 10 THEN <<Digits[n + 1]>>
          ELSE Str(n \div 10) \o <<Digits[(n % 10) + 1]>>

NoText == <<>>
NoVec == [model |-> 0, dim |-> 0, of |-> NoText]
NoFields == [search_text |-> NoText, embedding |-> NoVec, embedding_v2 |-> NoVec]
NoSearch == [index |-> "", model |-> 0, vec |-> NoVec, k |-> 0, version |-> 1]

\* ---------------------------------------------------------- pure functions
\* variant of SearchText that also prints the node id
SearchTextWithId(hotel) ==
    <<"Hotel ">> \o Str(hotel.id) \o <<" ", hotel.name, " in ", hotel.city, ", ",
      hotel.country, ". ">>
    \o Str(hotel.stars) \o <<" star rating. ">>
    \o <<"Cleanliness score: ">> \o Str(hotel.clean) \o <<". ">>
    \o <<"Comfort score: ">> \o Str(hotel.comfort) \o <<". ">>
    \o <<"Facilities score: ">> \o Str(hotel.facilities) \o <<".">>

\* populate_embeddings: the f-string building search_text
SearchText(hotel) ==
    <<"Hotel ", hotel.name, " in ", hotel.city, ", ", hotel.country, ". ">>
    \o Str(hotel.stars) \o <<" star rating. ">>
    \o <<"Cleanliness score: ">> \o Str(hotel.clean) \o <<". ">>
    \o <<"Comfort score: ">> \o Str(hotel.comfort) \o <<". ">>
    \o <<"Facilities score: ">> \o Str(hotel.facilities) \o <<".">>

\* output dimension of model_1 (all-MiniLM-L6-v2) and model_2 (paraphrase-albert-small-v2)
ModelDim(m) == IF m = 1 THEN Dim384 ELSE Dim768

\* model.encode(text): a vector of the model's dimension, determined by model and text
Encode(m, text) == [model |-> m, dim |-> ModelDim(m), of |-> text]

\* create_vector_indices: the two CREATE VECTOR INDEX statements
Index1 == [name |-> "hotel_embeddings", field |-> "embedding", dim |-> Dim384]
Index2 == [name |-> "hotel_embeddings_v2", field |-> "embedding_v2", dim |-> Dim768]
IndexDescriptors == {Index1, Index2}

\* variant of UpdateNode whose SET omits h.embedding_v2
UpdateNodeWithoutV2(f, id, embedding, embedding_v2, search_text) ==
    [f EXCEPT ![id] = [search_text |-> search_text,
                       embedding |-> embedding,
                       embedding_v2 |-> f[id].embedding_v2]]

\* update_query: one SET of the three derived properties of one node
UpdateNode(f, id, embedding, embedding_v2, search_text) ==
    [f EXCEPT ![id] = [search_text |-> search_text,
                       embedding |-> embedding,
                       embedding_v2 |-> embedding_v2]]

\* the record the fetch query returns for a hotel
Record(h) == [id |-> h] @@ source[h]

\* what one loop iteration of populate_embeddings writes for a fetched record
EntityFields(f, hotel) ==
    LET search_text == SearchText(hotel)
        emb_1 == Encode(1, search_text)
        emb_2 == Encode(2, search_text)
    IN  UpdateNode(f, hotel.id, emb_1, emb_2, search_text)

\* search_similar_hotels: index and model selected by model_version
IndexFor(model_version) ==
    IF model_version = 1 THEN "hotel_embeddings" ELSE "hotel_embeddings_v2"
\* variant of ModelFor that tests for version 2 where IndexFor tests for version 1
ModelForVersion2Only(model_version) == IF model_version = 2 THEN 2 ELSE 1
ModelFor(model_version) == IF model_version = 1 THEN 1 ELSE 2

\* variant of SemanticGate that lets only the search category through
SemanticGateSearchOnly(category) == category \in {"search"}

\* get_response: the gate in front of search_similar_hotels
SemanticGate(category) == category \in {"search", "recommendation"}

\* get_response: context = baseline + embedding if add_embeddings else baseline
Context(add_embeddings, baseline, embedding) ==
    IF add_embeddings THEN baseline \o embedding ELSE baseline

\* ------------------------------------------------------------ store helpers
RECURSIVE Asc(_)
Asc(S) == IF S = {} THEN <<>>
          ELSE LET m == CHOOSE x \in S : \A y \in S : x <= y
               IN  <<m>> \o Asc(S \ {m})

Range(s) == {s[i] : i \in 1..Len(s)}

\* all orderings of at most k elements of S, longest possible
Rankings(S, k) ==
    LET n == IF Cardinality(S) < k THEN Cardinality(S) ELSE k
    IN  {s \in [1..n -> S] : \A i, j \in 1..n : i # j => s[i] # s[j]}

\* nodes the named vector index holds: those whose indexed property is set
Indexed(name) ==
    LET d == CHOOSE x \in IndexDescriptors : x.name = name
    IN  {h \in Hotels : fields[h][d.field] # NoVec}

\* results the baseline query may return (store order), as hotel ids
BaselineChoices ==
    {<<>>, Asc(joined), SubSeq(Asc(joined), 1, 1)}

\* fields an earlier run of populate_embeddings left for older source data
StaleFields == EntityFields([h \in Hotels |-> NoFields], [id |-> 1] @@ AttrsOld)[1]

\* -------------------------------------------------------------------- Init
\* a store never populated, or one an earlier run populated from older data
StoreInit ==
    \/ /\ fields = [h \in Hotels |-> NoFields]
       /\ indices = {}
    \/ /\ fields = [h \in Hotels |-> IF h \in joined THEN StaleFields ELSE NoFields]
       /\ indices = IndexDescriptors

Locals ==
    /\ query = ""
    /\ user_input = ""
    /\ intent = "none"
    /\ baseline_results = <<>>
    /\ embedding_results = <<>>
    /\ context = <<>>
    /\ handed = FALSE
    /\ steps = <<>>
    /\ retrieverDriver = "none"
    /\ embedderDriver = "none"
    /\ models = {}
    /\ loadFailed = FALSE
    /\ idxFailed = {}
    /\ hotels = <<>>
    /\ batch_count = 0
    /\ fetched = FALSE
    /\ written = {}
    /\ writeFailed = {}
    /\ issued = {}
    /\ lastSearch = NoSearch

InitCommon ==
    /\ env \in [hf : BOOLEAN, pw : BOOLEAN]
    /\ source \in SourceChoices
    /\ joined \in {Hotels, Hotels \ {MaxHotels}}
    /\ StoreInit
    /\ prev = fields
    /\ Locals
    /\ calls = 0
    /\ outcome = "none"
    /\ completedRuns = 0
    /\ firstText = [h \in Hotels |-> NoText]

Init ==
    /\ InitCommon
    /\ pc = "idle"
    /\ mode = "serve"

\* ------------------------------------------------------ exception transfer
\* where a raised exception lands: the except clause of get_response logs it and
\* returns (serve); on the add-embeddings path and for a direct caller it propagates
Throw ==
    /\ pc' = IF mode = "direct" THEN "failed" ELSE "done"
    /\ outcome' = IF mode = "serve" THEN "error_logged" ELSE "raised"
    /\ UNCHANGED <<mode, calls>>

Goto(l) ==
    /\ pc' = l
    /\ UNCHANGED <<mode, calls, outcome>>

\* ------------------------------------------- EmbeddingManager.__init__ steps
\* variant of PasswordOk: the constructor does not test the password
PasswordUnchecked == TRUE

\* the password check in front of the connection
PasswordOk == env.pw

EMCheckPassword ==
    /\ pc = "em_pw"
    /\ IF PasswordOk THEN Goto("em_driver") ELSE Throw
    /\ UNCHANGED <<request, conns, mlState, idxs, data, derived, batch, history,
                   issued, lastSearch>>

\* self.driver = GraphDatabase.driver(...)
EMOpenDriver ==
    /\ pc = "em_driver"
    /\ \E ok \in BOOLEAN :
         IF ok THEN /\ embedderDriver' = "open"
                    /\ Goto("em_load1")
         ELSE /\ UNCHANGED embedderDriver
              /\ Throw
    /\ UNCHANGED <<request, retrieverDriver, mlState, idxs, data, derived, batch,
                   history, issued, lastSearch>>

\* variant of ModelLoadErrorReraised: the except clause only logs
ModelLoadErrorSwallowed == FALSE

\* the except clause around the two model loads: log and re-raise
ModelLoadErrorReraised == TRUE

LoadModel(m, here, next) ==
    /\ pc = here
    /\ \E ok \in BOOLEAN :
         IF ok THEN /\ models' = models \cup {m}
                    /\ UNCHANGED loadFailed
                    /\ Goto(next)
         ELSE /\ loadFailed' = TRUE
              /\ UNCHANGED models
              /\ IF ModelLoadErrorReraised THEN Throw ELSE Goto(next)
    /\ UNCHANGED <<request, conns, idxs, data, derived, batch, history,
                   issued, lastSearch>>

EMLoadModel1 == LoadModel(1, "em_load1", "em_load2")
EMLoadModel2 == LoadModel(2, "em_load2", "em_idx1")

\* create_vector_indices: one session.run in its own try/except (error logged)
CreateIndex(d, kind, n, here, next) ==
    /\ pc = here
    /\ issued' = issued \cup {kind}
    /\ \E ok \in BOOLEAN :
         IF ok THEN /\ indices' = indices \cup {d}
                    /\ UNCHANGED idxFailed
         ELSE /\ idxFailed' = idxFailed \cup {n}
              /\ UNCHANGED indices
    /\ Goto(next)
    /\ UNCHANGED <<request, conns, mlState, data, derived, batch, history, lastSearch>>

EMCreateIndex1 == CreateIndex(Index1, "create_index_1", 1, "em_idx1", "em_idx2")
EMCreateIndex2 == CreateIndex(Index2, "create_index_2", 2, "em_idx2", "em_fetch")

\* --------------------------------------------------- populate_embeddings
\* session.run(fetch_query): every Hotel on a Hotel->City->Country path
PopulateFetch ==
    /\ pc = "em_fetch"
    /\ issued' = issued \cup {"fetch"}
    /\ \E ok \in BOOLEAN :
         IF ok THEN /\ hotels' = Asc(joined)
                    /\ fetched' = TRUE
                    /\ batch_count' = 0
                    /\ Goto("em_loop")
         ELSE /\ UNCHANGED <<hotels, fetched, batch_count>>
              /\ Throw
    /\ UNCHANGED <<request, conns, mlState, idxs, data, derived, written, writeFailed,
                   history, lastSearch>>

\* one iteration of "for hotel in hotels": build the text, encode twice, update
PopulateEntity ==
    /\ pc = "em_loop"
    /\ batch_count < Len(hotels)
    /\ LET hotel == Record(hotels[batch_count + 1])
       IN  /\ issued' = issued \cup {"update"}
           /\ \E ok \in BOOLEAN :
                IF ok THEN /\ fields' = EntityFields(fields, hotel)
                           /\ written' = written \cup {hotel.id}
                           /\ batch_count' = batch_count + 1
                           /\ UNCHANGED writeFailed
                           /\ Goto("em_loop")
                ELSE /\ writeFailed' = writeFailed \cup {hotel.id}
                     /\ UNCHANGED <<fields, written, batch_count>>
                     /\ Throw
    /\ UNCHANGED <<request, conns, mlState, idxs, data, prev, hotels, fetched,
                   history, lastSearch>>

\* the loop is exhausted: populate_embeddings and __init__ return
PopulateDone ==
    /\ pc = "em_loop"
    /\ batch_count = Len(hotels)
    /\ completedRuns' = completedRuns + 1
    /\ firstText' = IF completedRuns = 0
                    THEN [h \in Hotels |-> fields[h].search_text]
                    ELSE firstText
    /\ pc' = CASE mode = "add" -> "done"
               [] mode = "direct" -> "em_ready"
               [] OTHER -> IF query # "" THEN "process" ELSE "input"
    /\ outcome' = IF mode = "add" THEN "returned" ELSE outcome
    /\ user_input' = IF mode = "serve" THEN query ELSE user_input
    /\ UNCHANGED <<mode, calls, query, intent, baseline_results, embedding_results,
                   context, handed, steps, conns, mlState, idxs, data, derived,
                   batch, issued, lastSearch>>

\* --------------------------------------------------- search_similar_hotels
\* the body of search_similar_hotels, continuing at `next` when it returns
SearchSimilarHotels(query_text, top_k, model_version, next) ==
    IF query_text = ""
    THEN /\ embedding_results' = <<>>
         /\ UNCHANGED <<issued, lastSearch>>
         /\ Goto(next)
    ELSE LET index_name == IndexFor(model_version)
             model == ModelFor(model_version)
             query_embedding == Encode(model, <<query_text>>)
         IN  /\ lastSearch' = [index |-> index_name, model |-> model,
                               vec |-> query_embedding, k |-> top_k,
                               version |-> model_version]
             /\ issued' = issued \cup {"search"}
             /\ \E ok \in BOOLEAN :
                  IF ok /\ \E d \in indices : d.name = index_name /\ d.dim = query_embedding.dim
                  THEN /\ embedding_results' \in Rankings(Indexed(index_name), top_k)
                       /\ Goto(next)
                  ELSE /\ UNCHANGED embedding_results
                       /\ Throw

\* ------------------------------------------------------------ get_response
\* entry: the add_embeddings branch, the two key checks, then the try block
Call ==
    /\ pc \in {"idle", "done"}
    /\ calls < MaxCalls
    /\ calls' = calls + 1
    /\ \E add_embeddings \in BOOLEAN, q \in Queries \cup {""} :
         /\ mode' = IF add_embeddings THEN "add" ELSE "serve"
         /\ query' = IF add_embeddings THEN "" ELSE q
         /\ add_embeddings => q = ""
         /\ IF add_embeddings
            THEN pc' = "em_pw" /\ outcome' = "none"
            ELSE IF ~env.hf \/ ~env.pw
                 THEN pc' = "done" /\ outcome' = "returned"
                 ELSE pc' = "init_processor" /\ outcome' = "none"
    /\ user_input' = ""
    /\ intent' = "none"
    /\ baseline_results' = <<>>
    /\ embedding_results' = <<>>
    /\ context' = <<>>
    /\ handed' = FALSE
    /\ steps' = <<>>
    /\ retrieverDriver' = "none"
    /\ embedderDriver' = "none"
    /\ models' = {}
    /\ loadFailed' = FALSE
    /\ idxFailed' = {}
    /\ hotels' = <<>>
    /\ batch_count' = 0
    /\ fetched' = FALSE
    /\ written' = {}
    /\ writeFailed' = {}
    /\ issued' = {}
    /\ lastSearch' = NoSearch
    /\ prev' = fields
    /\ UNCHANGED <<indices, data, fields, history>>

\* processor = Preprocessor()
InitProcessor ==
    /\ pc = "init_processor"
    /\ \E ok \in BOOLEAN : IF ok THEN Goto("init_retriever") ELSE Throw
    /\ UNCHANGED <<request, conns, mlState, idxs, data, derived, batch, history,
                   issued, lastSearch>>

\* retriever = GraphRetriever(): opens the retriever's own driver
InitRetriever ==
    /\ pc = "init_retriever"
    /\ \E ok \in BOOLEAN :
         IF ok THEN /\ retrieverDriver' = "open"
                    /\ Goto("em_pw")
         ELSE /\ UNCHANGED retrieverDriver
              /\ Throw
    /\ UNCHANGED <<request, embedderDriver, mlState, idxs, data, derived, batch,
                   history, issued, lastSearch>>

\* interactive mode: input(), the exit/quit test and the blank-line test
Input ==
    /\ pc = "input"
    /\ \E ok \in BOOLEAN, u \in Queries \cup {"exit", ""} :
         IF ~ok THEN Throw /\ UNCHANGED user_input
         ELSE IF u = "exit" THEN Goto("close_retriever") /\ UNCHANGED user_input
         ELSE IF u = "" THEN UNCHANGED <<ctl, user_input>>
         ELSE Goto("process") /\ user_input' = u
    /\ UNCHANGED <<query, intent, baseline_results, embedding_results, context,
                   handed, steps, conns, mlState, idxs, data, derived, batch,
                   history, issued, lastSearch>>

\* intent, entities = processor.process(text)
Process ==
    /\ pc = "process"
    /\ \E ok \in BOOLEAN, category \in Categories :
         IF ok THEN /\ intent' = category
                    /\ Goto("baseline")
         ELSE /\ UNCHANGED intent
              /\ Throw
    /\ steps' = <<>>
    /\ baseline_results' = <<>>
    /\ embedding_results' = <<>>
    /\ UNCHANGED <<query, user_input, context, handed, conns, mlState, idxs, data,
                   derived, batch, history, issued, lastSearch>>

\* baseline_results = retriever.retrieve_baseline(intent, entities);
\* embedding_results = []; the test of intent.category
Baseline ==
    /\ pc = "baseline"
    /\ issued' = issued \cup {"baseline"}
    /\ \E ok \in BOOLEAN, res \in BaselineChoices :
         IF ok THEN /\ baseline_results' = res
                    /\ steps' = Append(steps, "baseline")
                    /\ Goto(IF SemanticGate(intent) THEN "semantic" ELSE "display")
         ELSE /\ UNCHANGED <<baseline_results, steps>>
              /\ Throw
    /\ embedding_results' = <<>>
    /\ UNCHANGED <<query, user_input, intent, context, handed, conns, mlState, idxs,
                   data, derived, batch, history, lastSearch>>

\* embedding_results = embedder.search_similar_hotels(text)
Semantic ==
    /\ pc = "semantic"
    /\ steps' = Append(steps, "semantic")
    /\ SearchSimilarHotels(user_input, TopK, 1, "display")
    /\ UNCHANGED <<query, user_input, intent, baseline_results, context, handed,
                   conns, mlState, idxs, data, derived, batch, history>>

\* the two result listings are logged; single-query mode then builds the context
Display ==
    /\ pc = "display"
    /\ IF query # ""
       THEN /\ context' = Context(mode = "add", baseline_results, embedding_results)
            /\ Goto("infer")
       ELSE /\ UNCHANGED context
            /\ Goto("input")
    /\ UNCHANGED <<query, user_input, intent, baseline_results, embedding_results,
                   handed, steps, conns, mlState, idxs, data, derived, batch,
                   history, issued, lastSearch>>

\* format_prompt(query, context), setup_inference(), call_model(...)
Infer ==
    /\ pc = "infer"
    /\ \E ok \in BOOLEAN :
         IF ok THEN /\ handed' = TRUE
                    /\ Goto("close_retriever")
         ELSE /\ UNCHANGED handed
              /\ Throw
    /\ UNCHANGED <<query, user_input, intent, baseline_results, embedding_results,
                   context, steps, conns, mlState, idxs, data, derived, batch,
                   history, issued, lastSearch>>

\* retriever.close()
CloseRetriever ==
    /\ pc = "close_retriever"
    /\ retrieverDriver' = "closed"
    /\ Goto("close_embedder")
    /\ UNCHANGED <<request, embedderDriver, mlState, idxs, data, derived, batch,
                   history, issued, lastSearch>>

\* embedder.close(), then the return
CloseEmbedder ==
    /\ pc = "close_embedder"
    /\ embedderDriver' = "closed"
    /\ pc' = "done"
    /\ outcome' = "returned"
    /\ UNCHANGED <<mode, calls, request, retrieverDriver, mlState, idxs, data,
                   derived, batch, history, issued, lastSearch>>

Construct ==
    \/ EMCheckPassword
    \/ EMOpenDriver
    \/ EMLoadModel1
    \/ EMLoadModel2
    \/ EMCreateIndex1
    \/ EMCreateIndex2
    \/ PopulateFetch
    \/ PopulateEntity
    \/ PopulateDone

Next ==
    \/ Call
    \/ InitProcessor
    \/ InitRetriever
    \/ Construct
    \/ Input
    \/ Process
    \/ Baseline
    \/ Semantic
    \/ Display
    \/ Infer
    \/ CloseRetriever
    \/ CloseEmbedder

Spec == Init /\ [][Next]_vars

\* ------------------------------------- EmbeddingManager used as a library
ModelVersions == 0..3

\* a caller's search_similar_hotels(query_text, top_k, model_version)
DirectSearch ==
    /\ pc = "em_ready"
    /\ \E q \in Queries \cup {""}, k \in {1, TopK}, mv \in ModelVersions :
         SearchSimilarHotels(q, k, mv, "em_ready")
    /\ UNCHANGED <<query, user_input, intent, baseline_results, context, handed,
                   steps, conns, mlState, idxs, data, derived, batch, history>>

\* a caller's close()
DirectClose ==
    /\ pc = "em_ready"
    /\ embedderDriver' = "closed"
    /\ Goto("closed")
    /\ UNCHANGED <<request, retrieverDriver, mlState, idxs, data, derived, batch,
                   history, issued, lastSearch>>

InitEM ==
    /\ InitCommon
    /\ pc = "em_pw"
    /\ mode = "direct"

NextEM ==
    \/ Construct
    \/ DirectSearch
    \/ DirectClose

SpecEM == InitEM /\ [][NextEM]_vars

\* ================================================================ properties
Terminated == pc \in {"done", "failed", "closed"}

\* C1: in no terminal state of get_response is a driver that was opened (the
\* GraphRetriever's or the EmbeddingManager's) still unreleased, whatever the exit
\* path: normal return, exit/quit, the add-embeddings path, or an exception.
C1_DriversReleased ==
    pc = "done" => retrieverDriver # "open" /\ embedderDriver # "open"

\* C2: the context handed to the inference collaborator is baseline followed by
\* semantic results when the intent is search or recommendation, baseline alone
\* for every other category.
C2_ContextFusion ==
    handed =>
        context = IF intent \in {"search", "recommendation"}
                  THEN baseline_results \o embedding_results
                  ELSE baseline_results

\* C3: when populate_embeddings has ended, every fetched entity other than one
\* whose update write failed has been processed and written.
C3_BatchContinues ==
    (pc = "done" /\ fetched) =>
        \A h \in Range(hotels) \ writeFailed : h \in written

\* C4: when creation of both vector indices failed, construction aborts:
\* populate_embeddings never starts (no fetch query is issued).
C4_TotalIndexFailureFatal ==
    idxFailed = {1, 2} => "fetch" \notin issued

\* C5: once a model load has failed in a construction, no index-creation, fetch
\* or update query has been or will be issued by it, and no entity's derived
\* fields are written.
C5_NoWorkAfterLoadFailure ==
    loadFailed =>
        /\ issued \cap {"create_index_1", "create_index_2", "fetch", "update"} = {}
        /\ written = {}
        /\ fields = prev

C5_Witness ==
    /\ loadFailed
    /\ models = {1}
    /\ Terminated
    /\ \E h \in Hotels : prev[h] # NoFields

\* C6: at every point of a batch, stopped or not, every entity already written
\* holds search_text, embedding and embedding_v2 all computed from its one source
\* record, and every other entity (not reached, or in flight when the write
\* failed) keeps the field values it had before.
C6_AtomicEntityUpdate ==
    \A h \in Hotels :
        IF h \in written
        THEN LET text == SearchText(Record(h))
             IN  fields[h] = [search_text |-> text,
                              embedding |-> Encode(1, text),
                              embedding_v2 |-> Encode(2, text)]
        ELSE fields[h] = prev[h]

C6_Witness ==
    /\ Terminated
    /\ written # {}
    /\ writeFailed # {}
    /\ \E h \in Range(hotels) \ (written \cup writeFailed) : prev[h] # NoFields

\* C7: after a completed run of populate_embeddings, later runs on the same source
\* data leave every joined entity's search_text as the first run left it, and two
\* entities with the same name, city, country, stars and base scores have the
\* same search_text.
C7_PopulateConvergent ==
    completedRuns >= 1 =>
        /\ \A h \in joined : fields[h].search_text = firstText[h]
        /\ \A h1, h2 \in joined :
             source[h1] = source[h2] => fields[h1].search_text = fields[h2].search_text

C7_Witness ==
    /\ completedRuns >= 2
    /\ pc = "done"
    /\ \E h1, h2 \in joined : h1 # h2 /\ source[h1] = source[h2]
    /\ \E h1, h2 \in joined : source[h1] # source[h2]

\* C8: in a query cycle whose retrieval phase is over, baseline retrieval ran, and
\* the semantic search ran if and only if the category is search or
\* recommendation; the semantic search starts only after baseline has returned.
C8_RetrievalGating ==
    /\ pc = "display" =>
         steps = IF intent \in {"search", "recommendation"}
                 THEN <<"baseline", "semantic">>
                 ELSE <<"baseline">>
    /\ pc = "semantic" => steps = <<"baseline">>
    /\ \A i \in 1..Len(steps) :
         steps[i] = "semantic" =>
            i = 2 /\ steps[1] = "baseline" /\ intent \in {"search", "recommendation"}
    /\ (intent \in {"booking", "info", "other"} /\ pc \in {"display", "input", "infer"})
         => "semantic" \notin Range(steps)

C8_Witness ==
    /\ pc = "display"
    /\ query = ""
    /\ intent = "recommendation"
    /\ steps = <<"baseline", "semantic">>
    /\ embedding_results # <<>>

\* C9: whatever model_version is passed, the index queried and the model that
\* encoded the query are of one generation: the query vector has the dimension
\* the index was created with, and the model of the vectors populated into the
\* indexed field.
C9_IndexModelBound ==
    lastSearch # NoSearch =>
        \E d \in IndexDescriptors :
            /\ d.name = lastSearch.index
            /\ lastSearch.vec.dim = d.dim
            /\ lastSearch.vec.model = lastSearch.model
            /\ \A h \in Hotels :
                 fields[h][d.field] # NoVec =>
                    /\ fields[h][d.field].model = lastSearch.model
                    /\ fields[h][d.field].dim = lastSearch.vec.dim

C9_Witness ==
    /\ lastSearch # NoSearch
    /\ lastSearch.version \notin {1, 2}
    /\ lastSearch.index = "hotel_embeddings_v2"
    /\ written # {}
    /\ embedding_results # <<>>

\* C10: with the store password absent, on every path through get_response no
\* driver is created, no model is loaded and no store query is issued.
C10_NoPasswordNoConnection ==
    ~env.pw =>
        /\ retrieverDriver = "none"
        /\ embedderDriver = "none"
        /\ models = {}
        /\ issued = {}

C10_Witness ==
    /\ ~env.pw
    /\ pc = "done"
    /\ mode = "add"
    /\ outcome = "raised"
====
